---- MODULE Spec2Model ----
(***************************************************************************)
(* The image cache of mcp-screenshot-server (storage.py, and the tools of  *)
(* server.py that work on it): encoded images by id, an undo history per   *)
(* id, recorded dimensions, the LRU order, and the three limits.           *)
(*                                                                         *)
(* An image id "img_<timestamp>_<counter>" is the pair <<timestamp,        *)
(* counter>>; an id of any other shape is a pair whose first component is  *)
(* negative.  An image is [pix, w, h, marks]: the pixels it was made with, *)
(* its dimensions and the drawings made on it; its PNG encoding carries    *)
(* the same and has a byte length.                                         *)
(***************************************************************************)
EXTENDS Integers, Sequences, FiniteSets, TLC

\* ------------------------------------------------------------------ bounds

\* Largest value the model lets _image_counter reach.
MaxCounter == 2
\* Largest max_images the model passes or starts with.
MaxImagesArg == 2
\* Largest undo_levels the model passes or starts with.
MaxUndoArg == 2
\* datetime.now() is drawn from 0..MaxClock.
MaxClock == 0

\* ------------------------------------------------------------------ inputs

BytesPerMB == 1024 * 1024

Timestamps == 0 .. MaxClock

\* Ids of the shape generate_image_id produces.
GeneratedIds == Timestamps \X (1 .. MaxCounter)

\* An id of another shape (the tests use "nonexistent_id").
OtherId == <<0 - 1, 0>>

\* Every id of the model.
AllIds == GeneratedIds \cup {OtherId}

\* The ids a caller passes without having got them from the cache: the one of
\* another shape, and one of the generated shape.
CallerIds == {OtherId, <<0, MaxCounter>>}

NoId == <<>>

\* The images a caller may store: pixels and dimensions.
Images ==
  { [pix |-> "A", w |-> 100, h |-> 100, marks |-> <<>>],
    [pix |-> "B", w |-> 200, h |-> 100, marks |-> <<>>] }

NoImage == [pix |-> "", w |-> 0, h |-> 0, marks |-> <<>>]

\* Byte length of the PNG encoding of an image: 5 MB for the small one, 11 MB
\* for the large one, which alone exceeds the smallest max_memory_mb.
PngLen(image) ==
  IF image.pix = "A" THEN 5 * BytesPerMB ELSE 11 * BytesPerMB

\* The values the model gives max_memory_mb (the tool requires >= 10).
MemChoices == {10, 21}

\* An optional argument is the empty set (None) or a singleton.
Opt(S) == {{}} \cup { {x} : x \in S }

Val(o) == CHOOSE x \in o : TRUE

\* ------------------------------------------------------------------- state

VARIABLES
  image_store,     \* _image_store: id -> encoded bytes
  image_history,   \* _image_history: id -> sequence of encoded bytes, oldest first
  image_metadata,  \* _image_metadata: id -> <<width, height>>
  image_order,     \* _image_order: ids, least recently used first
  image_counter,   \* _image_counter
  MAX_IMAGES,      \* _MAX_IMAGES
  MAX_MEMORY_MB,   \* _MAX_MEMORY_MB
  UNDO_LEVELS,     \* _UNDO_LEVELS
  callout_counter, \* _callout_counter
  ret,             \* outcome of the last call: operation, returned id, error, image
  scen             \* progress of the create / overwrite / overwrite / undo x 3 scenario

vars ==
  << image_store, image_history, image_metadata, image_order, image_counter,
     MAX_IMAGES, MAX_MEMORY_MB, UNDO_LEVELS, callout_counter, ret, scen >>

\* ----------------------------------------------------------------- helpers

Put(f, k, v) == [x \in DOMAIN f \cup {k} |-> IF x = k THEN v ELSE f[x]]

Del(f, k) == [x \in DOMAIN f \ {k} |-> f[x]]

InSeq(s, x) == \E i \in 1 .. Len(s) : s[i] = x

Front(s) == SubSeq(s, 1, Len(s) - 1)

Last(s) == s[Len(s)]

\* list.remove(x): drops the first occurrence of x.
RECURSIVE ListRemove(_, _)
ListRemove(s, x) ==
  IF s = <<>> THEN <<>>
  ELSE IF Head(s) = x THEN Tail(s)
  ELSE <<Head(s)>> \o ListRemove(Tail(s), x)

RECURSIVE SumLen(_)
SumLen(s) == IF s = <<>> THEN 0 ELSE Head(s).len + SumLen(Tail(s))

RECURSIVE SumOver(_, _)
SumOver(f, S) ==
  IF S = {} THEN 0
  ELSE LET k == CHOOSE x \in S : TRUE IN f[k] + SumOver(f, S \ {k})

\* A lossy format for PNG: the pixels that come back are not the ones saved.
JpegEncode(image) ==
  [pix |-> "lossy", w |-> image.w, h |-> image.h, marks |-> image.marks,
   len |-> PngLen(image)]

\* image.save(buffer, format="PNG"); buffer.getvalue()
PngEncode(image) ==
  [pix |-> image.pix, w |-> image.w, h |-> image.h, marks |-> image.marks,
   len |-> PngLen(image)]

\* PILImage.open(io.BytesIO(data))
PngDecode(data) == [pix |-> data.pix, w |-> data.w, h |-> data.h, marks |-> data.marks]

\* The cache as one value, for the operators below.
Cache ==
  [store |-> image_store, history |-> image_history,
   metadata |-> image_metadata, order |-> image_order]

\* ----------------------------------------------------------------- storage

\* Total bytes of the store and of every history (get_total_memory_mb times 2^20).
get_total_bytes(c) ==
  SumOver([k \in DOMAIN c.store |-> c.store[k].len], DOMAIN c.store)
  + SumOver([k \in DOMAIN c.history |-> SumLen(c.history[k])], DOMAIN c.history)

\* get_total_memory_mb() > limit; the division by 2^20 is exact in a float.
OverMemory(c, limit) == get_total_bytes(c) > limit * BytesPerMB

\* The removal without the history: the undo snapshots outlive the image.
RemoveKeepHistory(c, image_id) ==
  [store    |-> Del(c.store, image_id),
   history  |-> c.history,
   metadata |-> Del(c.metadata, image_id),
   order    |-> ListRemove(c.order, image_id)]

remove_image_internal(c, image_id) ==
  [store    |-> Del(c.store, image_id),
   history  |-> Del(c.history, image_id),
   metadata |-> Del(c.metadata, image_id),
   order    |-> ListRemove(c.order, image_id)]

touch_image(order, image_id) ==
  IF InSeq(order, image_id)
  THEN Append(ListRemove(order, image_id), image_id)
  ELSE order

RECURSIVE EvictByCount(_, _, _)
EvictByCount(c, limit, evicted) ==
  IF Cardinality(DOMAIN c.store) > limit /\ c.order # <<>>
  THEN LET oldest_id == Head(c.order)
           rest      == remove_image_internal(c, oldest_id)
           more      == Append(evicted, oldest_id)
       IN  EvictByCount(rest, limit, more)
  ELSE [c |-> c, evicted |-> evicted]

\* The memory pass with "if" for "while": it removes one id at most.
EvictByMemoryOnce(c, limit, evicted) ==
  IF OverMemory(c, limit) /\ c.order # <<>>
  THEN [c |-> remove_image_internal(c, Head(c.order)),
        evicted |-> Append(evicted, Head(c.order))]
  ELSE [c |-> c, evicted |-> evicted]

RECURSIVE EvictByMemory(_, _, _)
EvictByMemory(c, limit, evicted) ==
  IF OverMemory(c, limit) /\ c.order # <<>>
  THEN LET oldest_id == Head(c.order)
           rest      == remove_image_internal(c, oldest_id)
           more      == Append(evicted, oldest_id)
       IN  EvictByMemory(rest, limit, more)
  ELSE [c |-> c, evicted |-> evicted]

\* Both passes; the result is the cache and the list of evicted ids.
evict_if_needed(c, max_images, max_memory_mb) ==
  LET byCount == EvictByCount(c, max_images, <<>>)
      c1      == byCount.c
      ev1     == byCount.evicted
  IN  EvictByMemory(c1, max_memory_mb, ev1)

generate_image_id(ts, counter) == <<ts, counter>>

\* The push without the trim to undo_levels.
PushHistoryNoTrim(history, image_id, current, levels) ==
  LET h0 == IF image_id \in DOMAIN history THEN history[image_id] ELSE <<>>
  IN  Put(history, image_id, Append(h0, current))

\* The push with pop() for pop(0): the trim drops the newest snapshot.
PushHistoryDropNewest(history, image_id, current, levels) ==
  LET h0 == IF image_id \in DOMAIN history THEN history[image_id] ELSE <<>>
      h1 == Append(h0, current)
      h2 == IF Len(h1) > levels THEN Front(h1) ELSE h1
  IN  Put(history, image_id, h2)

\* The undo history of image_id after the snapshot of the current bytes.
PushHistory(history, image_id, current, levels) ==
  LET h0 == IF image_id \in DOMAIN history THEN history[image_id] ELSE <<>>
      h1 == Append(h0, current)
      h2 == IF Len(h1) > levels THEN Tail(h1) ELSE h1
  IN  Put(history, image_id, h2)

\* store_image with insert(0, id) for append(id): a new id goes to the head.
StoreInsertAtHead(image, image_id, save_history, ts) ==
  LET is_new  == image_id = {}
      counter == IF is_new THEN image_counter + 1 ELSE image_counter
      id      == IF is_new THEN generate_image_id(ts, counter) ELSE Val(image_id)
      save    == IF is_new THEN FALSE ELSE save_history
      hist    == IF save /\ id \in DOMAIN image_store
                 THEN PushHistory(image_history, id, image_store[id], UNDO_LEVELS)
                 ELSE image_history
  IN  [c |-> [store    |-> Put(image_store, id, PngEncode(image)),
              history  |-> hist,
              metadata |-> Put(image_metadata, id, <<image.w, image.h>>),
              order    |-> IF is_new THEN <<id>> \o image_order
                           ELSE touch_image(image_order, id)],
       id |-> id, counter |-> counter]

\* store_image before its eviction pass: [c, id, counter].
StoreInsert(image, image_id, save_history, ts) ==
  LET is_new  == image_id = {}
      counter == IF is_new THEN image_counter + 1 ELSE image_counter
      id      == IF is_new THEN generate_image_id(ts, counter) ELSE Val(image_id)
      save    == IF is_new THEN FALSE ELSE save_history
      hist    == IF save /\ id \in DOMAIN image_store
                 THEN PushHistory(image_history, id, image_store[id], UNDO_LEVELS)
                 ELSE image_history
  IN  [c |-> [store    |-> Put(image_store, id, PngEncode(image)),
              history  |-> hist,
              metadata |-> Put(image_metadata, id, <<image.w, image.h>>),
              order    |-> IF is_new THEN Append(image_order, id)
                           ELSE touch_image(image_order, id)],
       id |-> id, counter |-> counter]

\* store_image: [c, id, counter, evicted].
store_image(image, image_id, save_history, ts) ==
  LET ins == StoreInsert(image, image_id, save_history, ts)
      c1  == ins.c
      ev  == evict_if_needed(c1, MAX_IMAGES, MAX_MEMORY_MB)
  IN  [c |-> ev.c, id |-> ins.id, counter |-> ins.counter, evicted |-> ev.evicted]

\* The cut with pop() for pop(0): the oldest snapshots are the ones kept.
TrimHistoriesKeepOldest(history, levels) ==
  [k \in DOMAIN history |->
     IF Len(history[k]) > levels
     THEN SubSeq(history[k], 1, levels)
     ELSE history[k]]

\* The histories cut to the new undo_levels (pop(0) while too long).
TrimHistories(history, levels) ==
  [k \in DOMAIN history |->
     IF Len(history[k]) > levels
     THEN SubSeq(history[k], Len(history[k]) - levels + 1, Len(history[k]))
     ELSE history[k]]

\* configure_limits of storage.py: [c, max_images, max_memory_mb, undo_levels, evicted].
storage_configure_limits(max_images, max_memory_mb, undo_levels) ==
  LET mi == IF max_images # {} THEN Val(max_images) ELSE MAX_IMAGES
      mm == IF max_memory_mb # {} THEN Val(max_memory_mb) ELSE MAX_MEMORY_MB
      ul == IF undo_levels # {} THEN Val(undo_levels) ELSE UNDO_LEVELS
      h  == IF undo_levels # {} THEN TrimHistories(image_history, ul)
            ELSE image_history
      c1 == [Cache EXCEPT !.history = h]
      ev == evict_if_needed(c1, mi, mm)
  IN  [c |-> ev.c, max_images |-> mi, max_memory_mb |-> mm, undo_levels |-> ul,
       evicted |-> ev.evicted]

\* ------------------------------------------------------- the call's outcome

\* fresh: the call fetched the id that the call before it had created.
Outcome(op, id, err, img, new, fresh) ==
  [op |-> op, id |-> id, err |-> err, img |-> img, new |-> new, fresh |-> fresh]

ScenIdle == [st |-> 0, id |-> NoId, a |-> NoImage, b |-> NoImage]

\* The scenario after store_image returned r: a creation starts it, an overwrite
\* of its id that saves history (undo_levels >= 2) advances it while the id stays
\* resident, anything else ends it.
ScenAfterStore(r, image, image_id, save_history) ==
  IF r.id \notin DOMAIN r.c.store THEN ScenIdle
  ELSE IF r.id \notin DOMAIN image_store
    THEN [st |-> 1, id |-> r.id, a |-> image, b |-> NoImage]
  ELSE IF /\ scen.st \in {1, 2}
          /\ scen.id = r.id
          /\ image_id # {}
          /\ save_history
          /\ UNDO_LEVELS >= 2
    THEN [scen EXCEPT !.st = scen.st + 1,
                      !.b = IF scen.st = 1 THEN image ELSE scen.b]
  ELSE ScenIdle

\* The scenario after undo(image_id): its three undo calls follow the overwrites.
ScenAfterUndo(image_id) ==
  IF scen.st \in {3, 4, 5} /\ scen.id = image_id
  THEN [scen EXCEPT !.st = scen.st + 1]
  ELSE ScenIdle

\* ----------------------------------------------------------------- actions

SetCache(c) ==
  /\ image_store' = c.store
  /\ image_history' = c.history
  /\ image_metadata' = c.metadata
  /\ image_order' = c.order

StoreReturns(r, image, image_id, save_history) ==
  /\ SetCache(r.c)
  /\ image_counter' = r.counter
  /\ UNCHANGED <<MAX_IMAGES, MAX_MEMORY_MB, UNDO_LEVELS, callout_counter>>
  /\ ret' = Outcome("store_image", r.id, "none", image, image_id = {}, FALSE)
  /\ scen' = ScenAfterStore(r, image, image_id, save_history)

\* store_image(image, None, save_history)
StoreNew(image, save_history, ts) ==
  /\ image_counter < MaxCounter
  /\ \E r \in {store_image(image, {}, save_history, ts)} :
       StoreReturns(r, image, {}, save_history)

\* store_image(image, image_id, save_history)
StoreAt(image, image_id, save_history) ==
  \E r \in {store_image(image, {image_id}, save_history, 0)} :
    StoreReturns(r, image, {image_id}, save_history)

\* The call before this one was store_image without an id and returned image_id.
JustCreated(image_id) ==
  ret.op = "store_image" /\ ret.new /\ ret.id = image_id

\* get_image with the membership test after the touch, and a touch that appends
\* whether or not the id is in the order.
GetImageTouchFirst(image_id) ==
  /\ image_order' = Append(ListRemove(image_order, image_id), image_id)
  /\ ret' = IF image_id \notin DOMAIN image_store
            THEN Outcome("get_image", NoId, "NotFound", NoImage, FALSE,
                         JustCreated(image_id))
            ELSE Outcome("get_image", NoId, "none",
                         PngDecode(image_store[image_id]), FALSE,
                         JustCreated(image_id))
  /\ scen' = ScenIdle
  /\ UNCHANGED << image_store, image_history, image_metadata, image_counter,
                  MAX_IMAGES, MAX_MEMORY_MB, UNDO_LEVELS, callout_counter >>

\* get_image of storage.py
GetImage(image_id) ==
  IF image_id \notin DOMAIN image_store
  THEN /\ ret' = Outcome("get_image", NoId, "NotFound", NoImage, FALSE, JustCreated(image_id))
       /\ scen' = ScenIdle
       /\ UNCHANGED << image_store, image_history, image_metadata, image_order,
                       image_counter, MAX_IMAGES, MAX_MEMORY_MB, UNDO_LEVELS, callout_counter >>
  ELSE /\ image_order' = touch_image(image_order, image_id)
       /\ ret' = Outcome("get_image", NoId, "none",
                         PngDecode(image_store[image_id]), FALSE,
                         JustCreated(image_id))
       /\ scen' = ScenIdle
       /\ UNCHANGED << image_store, image_history, image_metadata, image_counter,
                       MAX_IMAGES, MAX_MEMORY_MB, UNDO_LEVELS, callout_counter >>

\* undo with pop(0): the oldest snapshot is restored.
UndoPopOldest(h) == [rest |-> Tail(h), restored |-> Head(h)]

\* The history of image_id and the bytes undo makes current: [rest, restored].
UndoPop(h) == [rest |-> Front(h), restored |-> Last(h)]

\* undo of server.py
Undo(image_id) ==
  IF image_id \notin DOMAIN image_history \/ image_history[image_id] = <<>>
  THEN /\ ret' = Outcome("undo", NoId, "NoHistory", NoImage, FALSE, FALSE)
       /\ scen' = ScenAfterUndo(image_id)
       /\ UNCHANGED << image_store, image_history, image_metadata, image_order,
                       image_counter, MAX_IMAGES, MAX_MEMORY_MB, UNDO_LEVELS, callout_counter >>
  ELSE LET p == UndoPop(image_history[image_id])
       IN  /\ image_store' = Put(image_store, image_id, p.restored)
           /\ image_history' = Put(image_history, image_id, p.rest)
           /\ ret' = Outcome("undo", NoId, "none", NoImage, FALSE, FALSE)
           /\ scen' = ScenAfterUndo(image_id)
           /\ UNCHANGED << image_metadata, image_order, image_counter, MAX_IMAGES,
                           MAX_MEMORY_MB, UNDO_LEVELS, callout_counter >>

\* delete_image of server.py
DeleteImage(image_id) ==
  IF image_id \notin DOMAIN image_store
  THEN /\ ret' = Outcome("delete_image", NoId, "NotFound", NoImage, FALSE, FALSE)
       /\ scen' = ScenIdle
       /\ UNCHANGED << image_store, image_history, image_metadata, image_order,
                       image_counter, MAX_IMAGES, MAX_MEMORY_MB, UNDO_LEVELS, callout_counter >>
  ELSE LET c == remove_image_internal(Cache, image_id)
       IN  /\ SetCache(c)
           /\ ret' = Outcome("delete_image", NoId, "none", NoImage, FALSE, FALSE)
           /\ scen' = ScenIdle
           /\ UNCHANGED <<image_counter, MAX_IMAGES, MAX_MEMORY_MB, UNDO_LEVELS, callout_counter>>

\* configure_limits of server.py with arguments in range (ge=1, ge=10, 1..100)
ConfigureLimits(max_images, max_memory_mb, undo_levels) ==
  \E r \in {storage_configure_limits(max_images, max_memory_mb, undo_levels)} :
      /\ SetCache(r.c)
      /\ MAX_IMAGES' = r.max_images
      /\ MAX_MEMORY_MB' = r.max_memory_mb
      /\ UNDO_LEVELS' = r.undo_levels
      /\ ret' = Outcome("configure_limits", NoId, "none", NoImage, FALSE, FALSE)
      /\ scen' = ScenIdle
      /\ UNCHANGED <<image_counter, callout_counter>>

\* ----------------------------------------------------------- specification

\* The module's globals after import: empty cache, limits read from the environment.
Init ==
  /\ image_store = <<>>
  /\ image_history = <<>>
  /\ image_metadata = <<>>
  /\ image_order = <<>>
  /\ image_counter = 0
  /\ MAX_IMAGES \in 1 .. MaxImagesArg
  /\ MAX_MEMORY_MB \in MemChoices
  /\ UNDO_LEVELS \in 1 .. MaxUndoArg
  /\ callout_counter = 0
  /\ ret = Outcome("init", NoId, "none", NoImage, FALSE, FALSE)
  /\ scen = ScenIdle

\* The ids a call is made with: the resident ones and the caller's own.
Known == DOMAIN image_store \cup CallerIds

Next ==
  \/ \E image \in Images, save_history \in BOOLEAN, ts \in Timestamps :
       StoreNew(image, save_history, ts)
  \/ \E image \in Images, image_id \in Known, save_history \in BOOLEAN :
       StoreAt(image, image_id, save_history)
  \/ \E image_id \in Known : GetImage(image_id)
  \/ \E image_id \in Known : Undo(image_id)
  \/ \E image_id \in Known : DeleteImage(image_id)
  \/ \E max_images \in Opt(1 .. MaxImagesArg), max_memory_mb \in Opt(MemChoices),
        undo_levels \in Opt(1 .. MaxUndoArg) :
       ConfigureLimits(max_images, max_memory_mb, undo_levels)

Spec == Init /\ [][Next]_vars

\* ------------------------------------------------------------------ claims

Resident == DOMAIN image_store

Returned(ops) == ret.op \in ops

\* C1: whenever store_image or configure_limits has returned (max_images >= 1),
\* the number of resident images is at most max_images.
C1_CountWithinMaxImages ==
  Returned({"store_image", "configure_limits"})
    => Cardinality(Resident) <= MAX_IMAGES

\* C2: whenever store_image or configure_limits has returned, the cache holds no
\* image or the bytes of all resident images and of all their undo snapshots are
\* at most max_memory_mb megabytes.
C2_MemoryWithinCeiling ==
  Returned({"store_image", "configure_limits"})
    => \/ Resident = {}
       \/ get_total_bytes(Cache) <= MAX_MEMORY_MB * BytesPerMB

\* The LRU order an eviction pass of this step starts from, and the ids resident
\* when it starts.
OrderAtEviction ==
  IF ret'.op = "store_image"
  THEN IF ret'.new THEN Append(image_order, ret'.id)
       ELSE touch_image(image_order, ret'.id)
  ELSE image_order

ResidentAtEviction ==
  IF ret'.op = "store_image" THEN Resident \cup {ret'.id} ELSE Resident

\* C3: eviction removes images in least-recently-used order: no eviction pass
\* removes an id b while an id a that was last touched before b stays resident.
\* The ids of the LRU order were last touched in that order, and the id a
\* store_image call stores is the one touched last of all.
C3_EvictsLeastRecentlyUsed ==
  [][ ret'.op \in {"store_image", "configure_limits"} =>
        LET order   == OrderAtEviction
            removed == ResidentAtEviction \ Resident'
        IN  /\ \A i, j \in 1 .. Len(order) :
                 (i < j /\ order[i] # order[j] /\ order[j] \in removed)
                   => order[i] \notin Resident'
            /\ (ret'.op = "store_image" /\ ret'.id \in removed)
                 => Resident' = {}
    ]_vars

\* get_undo_count of server.py
UndoCount(history, image_id) ==
  IF image_id \in DOMAIN history THEN Len(history[image_id]) ELSE 0

\* C4: undo is last-in-first-out: after an image is created with content A and
\* overwritten with B and then C (history saved, undo_levels >= 2, the id not
\* evicted), the first undo makes B current, the second A, and the third fails
\* with the no-undo-history error and leaves A current.
C4_UndoIsLifo ==
  /\ scen.st = 4 =>
       ret.err = "none" /\ image_store[scen.id] = PngEncode(scen.b)
  /\ scen.st = 5 =>
       ret.err = "none" /\ image_store[scen.id] = PngEncode(scen.a)
  /\ scen.st = 6 =>
       ret.err = "NoHistory" /\ image_store[scen.id] = PngEncode(scen.a)

\* The three undo calls of the scenario are done, on contents A # B.
C4_Witness == scen.st = 6 /\ scen.a # scen.b /\ ret.op = "undo"

\* C5: the undo history of every image holds at most undo_levels snapshots.
C5_HistoryWithinUndoLevels ==
  \A id \in DOMAIN image_history : Len(image_history[id]) <= UNDO_LEVELS

\* store_image has pushed onto a history that is now exactly undo_levels long.
C5_Witness ==
  /\ ret.op = "store_image"
  /\ ~ret.new
  /\ UndoCount(image_history, ret.id) = UNDO_LEVELS

\* C6 as claimed: store_image of a new image followed immediately by get_image
\* of the returned id succeeds and yields the stored content, width and height,
\* for every image and every cache state.
C6_RoundTripAlways ==
  [][ (ret.op = "store_image" /\ ret.new /\ GetImage(ret.id))
        => (ret'.err = "none" /\ ret'.img = ret.img)
    ]_vars

\* C6 as amended: store_image of a new image followed immediately by get_image
\* of the returned id yields the stored content, width and height if the id is
\* still resident when store_image returns, and fails with not-found if the
\* call's own eviction pass removed it.
C6_RoundTripIfResident ==
  [][ (ret.op = "store_image" /\ ret.new /\ GetImage(ret.id))
        => IF ret.id \in Resident
           THEN ret'.err = "none" /\ ret'.img = ret.img
           ELSE ret'.err = "NotFound"
    ]_vars

\* get_image has returned the image that the call before it created.
C6_Witness ==
  ret.op = "get_image" /\ ret.fresh /\ ret.err = "none" /\ ret.img \in Images

\* The set of the elements of a list.
Range(list) == {list[i] : i \in 1 .. Len(list)}

\* C7: when n images are resident, the memory ceiling is not exceeded and
\* configure_limits sets max_images to k with 1 <= k < n, exactly the n-k ids at
\* the head of the LRU order are removed, the other k stay resident with their
\* content and history unchanged, and the evicted list is exactly the removed ids.
C7_ConfigureEvictsOldest ==
  [][ \A k \in 1 .. MaxImagesArg :
        ( /\ ret'.op = "configure_limits"
          /\ k < Cardinality(Resident)
          /\ get_total_bytes(Cache) <= MAX_MEMORY_MB * BytesPerMB
          /\ ConfigureLimits({k}, {}, {}) )
          => LET n       == Cardinality(Resident)
                 removed == Resident \ Resident'
                 evicted == storage_configure_limits({k}, {}, {}).evicted
             IN  /\ Cardinality(removed) = n - k
                 /\ Cardinality(Resident') = k
                 /\ Len(image_order) >= n - k
                 /\ removed = Range(SubSeq(image_order, 1, n - k))
                 /\ \A id \in Resident' :
                      /\ id \in Resident
                      /\ image_store'[id] = image_store[id]
                      /\ UndoCount(image_history', id) = UndoCount(image_history, id)
                      /\ id \in DOMAIN image_history
                           => image_history'[id] = image_history[id]
                 /\ Len(evicted) = n - k
                 /\ Range(evicted) = removed
    ]_vars

\* C8: get_image of an id that is not resident fails with not-found and leaves
\* the stored images, the undo histories, the metadata and the LRU order
\* unchanged.
C8_GetMissingChangesNothing ==
  [][ \A id \in AllIds :
        (ret'.op = "get_image" /\ id \notin Resident /\ GetImage(id))
          => /\ ret'.err = "NotFound"
             /\ UNCHANGED <<image_store, image_history, image_metadata, image_order>>
    ]_vars

\* get_image has failed with not-found on a cache that holds an image.
C8_Witness ==
  ret.op = "get_image" /\ ret.err = "NotFound" /\ Resident # {} /\ image_order # <<>>

\* This step is store_image without an id, with save_history true or false.
IsStoreNew ==
  \E save_history \in BOOLEAN, ts \in Timestamps :
    StoreNew(ret'.img, save_history, ts)

Pushed(h0, current) ==
  LET h1 == Append(h0, current)
  IN  IF Len(h1) > UNDO_LEVELS THEN Tail(h1) ELSE h1

HistoryOf(image_id) ==
  IF image_id \in DOMAIN image_history THEN image_history[image_id] ELSE <<>>

\* This step is store_image on a resident id with save_history true.
IsOverwriteSavingHistory ==
  /\ ret'.op = "store_image"
  /\ ~ret'.new
  /\ ret'.id \in Resident
  /\ StoreAt(ret'.img, ret'.id, TRUE)

\* C10 as claimed: store_image on a resident id with save_history true makes the
\* content that was current the newest undo snapshot of that id; if the history
\* then has more than undo_levels snapshots only the oldest is dropped, and the
\* order of the others is unchanged.
C10_PushesCurrent ==
  [][ IsOverwriteSavingHistory
        => /\ ret'.id \in DOMAIN image_history'
           /\ image_history'[ret'.id] = Pushed(HistoryOf(ret'.id), image_store[ret'.id])
    ]_vars

\* C10 as amended: the same, provided the id is still resident when the call
\* returns (the call's own eviction pass can remove the id with its history).
C10_PushesCurrentIfResident ==
  [][ (IsOverwriteSavingHistory /\ ret'.id \in Resident')
        => /\ ret'.id \in DOMAIN image_history'
           /\ image_history'[ret'.id] = Pushed(HistoryOf(ret'.id), image_store[ret'.id])
    ]_vars

\* store_image has overwritten an id whose history is full, with a snapshot that
\* differs from the one before it.
C10_Witness ==
  /\ ret.op = "store_image"
  /\ ~ret.new
  /\ ret.id \in Resident
  /\ UNDO_LEVELS >= 2
  /\ UndoCount(image_history, ret.id) = UNDO_LEVELS
  /\ image_history[ret.id][1] # image_history[ret.id][2]

\* C11: store_image called with an id that is not resident inserts it as a fresh
\* image: afterwards the id is resident, it is at the tail of the LRU order and
\* it has no undo history.
C11_FreshInsertion ==
  [][ (ret'.op = "store_image" /\ ~ret'.new /\ ret'.id \notin Resident)
        => /\ ret'.id \in Resident'
           /\ image_order' # <<>>
           /\ Last(image_order') = ret'.id
           /\ UndoCount(image_history', ret'.id) = 0
    ]_vars

\* The list without any occurrence of x, the others in their order.
Without(list, x) == SelectSeq(list, LAMBDA y : y # x)

C13_MetadataMatchesContent ==
  \A id \in Resident :
    /\ id \in DOMAIN image_metadata
    /\ image_metadata[id] = << PngDecode(image_store[id]).w, PngDecode(image_store[id]).h >>

\* --------------------------------------------- the storage module called directly

\* Values outside the ranges the tool's schema declares (ge=1, ge=10, 1..100).
BadMaxImages == 0
BadMaxMemoryMB == 9
BadUndoLevels == 0

AnyMaxImages == (1 .. MaxImagesArg) \cup {BadMaxImages}
AnyMaxMemoryMB == MemChoices \cup {BadMaxMemoryMB}
AnyUndoLevels == (1 .. MaxUndoArg) \cup {BadUndoLevels}

\* configure_limits of storage.py called with any integers: the function has no
\* range test of its own, and neither has the body of the tool that calls it.
StorageConfigureLimits(max_images, max_memory_mb, undo_levels) ==
  ConfigureLimits(max_images, max_memory_mb, undo_levels)

\* get_image of server.py: the tool returns the stored bytes without touch_image.
ToolGetImage(image_id) ==
  /\ ret' = IF image_id \notin DOMAIN image_store
            THEN Outcome("tool_get_image", NoId, "NotFound", NoImage, FALSE, FALSE)
            ELSE Outcome("tool_get_image", NoId, "none",
                         PngDecode(image_store[image_id]), FALSE, FALSE)
  /\ scen' = ScenIdle
  /\ UNCHANGED << image_store, image_history, image_metadata, image_order,
                  image_counter, MAX_IMAGES, MAX_MEMORY_MB, UNDO_LEVELS, callout_counter >>

\* image_to_base64 of storage.py: the result is a string, not an image.
ImageToBase64(image_id) ==
  /\ ret' = IF image_id \notin DOMAIN image_store
            THEN Outcome("image_to_base64", NoId, "NotFound", NoImage, FALSE, FALSE)
            ELSE Outcome("image_to_base64", NoId, "none", NoImage, FALSE, FALSE)
  /\ scen' = ScenIdle
  /\ UNCHANGED << image_store, image_history, image_metadata, image_order,
                  image_counter, MAX_IMAGES, MAX_MEMORY_MB, UNDO_LEVELS, callout_counter >>

\* The storage functions alone: store_image and configure_limits with any integers.
NextStorage ==
  \/ \E image \in Images, save_history \in BOOLEAN, ts \in Timestamps :
       StoreNew(image, save_history, ts)
  \/ \E image \in Images, image_id \in Known, save_history \in BOOLEAN :
       StoreAt(image, image_id, save_history)
  \/ \E max_images \in Opt(AnyMaxImages), max_memory_mb \in Opt(AnyMaxMemoryMB),
        undo_levels \in Opt(AnyUndoLevels) :
       StorageConfigureLimits(max_images, max_memory_mb, undo_levels)

SpecStorage == Init /\ [][NextStorage]_vars

\* Stores, the three reads by id, and the evictions that show which id is oldest.
NextReads ==
  \/ \E image \in Images, save_history \in BOOLEAN, ts \in Timestamps :
       StoreNew(image, save_history, ts)
  \/ \E image \in Images, image_id \in Known, save_history \in BOOLEAN :
       StoreAt(image, image_id, save_history)
  \/ \E image_id \in Known : GetImage(image_id)
  \/ \E image_id \in Known : ToolGetImage(image_id)
  \/ \E image_id \in Known : ImageToBase64(image_id)
  \/ \E max_images \in Opt(1 .. MaxImagesArg), max_memory_mb \in Opt(MemChoices),
        undo_levels \in Opt(1 .. MaxUndoArg) :
       ConfigureLimits(max_images, max_memory_mb, undo_levels)

SpecReads == Init /\ [][NextReads]_vars

\* A provided value is outside the range of its parameter.
OutOfRange(max_images, max_memory_mb, undo_levels) ==
  \/ max_images # {} /\ Val(max_images) < 1
  \/ max_memory_mb # {} /\ Val(max_memory_mb) < 10
  \/ undo_levels # {} /\ (Val(undo_levels) < 1 \/ Val(undo_levels) > 100)

\* C14: configure_limits is all-or-nothing: if any provided value is out of range
\* the call fails, and the three limits, every undo history and the set of
\* resident images are as before the call.
C14_ConfigureAllOrNothing ==
  [][ \A max_images \in Opt(AnyMaxImages), max_memory_mb \in Opt(AnyMaxMemoryMB),
         undo_levels \in Opt(AnyUndoLevels) :
        ( /\ ret'.op = "configure_limits"
          /\ OutOfRange(max_images, max_memory_mb, undo_levels)
          /\ StorageConfigureLimits(max_images, max_memory_mb, undo_levels) )
          => /\ ret'.err # "none"
             /\ UNCHANGED <<MAX_IMAGES, MAX_MEMORY_MB, UNDO_LEVELS, callout_counter, image_history>>
             /\ Resident' = Resident
    ]_vars

\* The n most recent snapshots of a history, in their order.
MostRecent(h, n) ==
  [i \in 1 .. (IF Len(h) > n THEN n ELSE Len(h)) |->
     h[i + (IF Len(h) > n THEN Len(h) - n ELSE 0)]]

\* C15: in every reachable state, configure_limits called with undo_levels n
\* returns with the history of every image that stays resident cut to its n most
\* recent snapshots in their original order, and with every limit that is not
\* passed at its previous value.
C15_TruncatesToMostRecent ==
  \A max_images \in Opt(1 .. MaxImagesArg), max_memory_mb \in Opt(MemChoices),
     undo_levels \in Opt(1 .. MaxUndoArg) :
    LET r == storage_configure_limits(max_images, max_memory_mb, undo_levels)
    IN  /\ max_images = {} => r.max_images = MAX_IMAGES
        /\ max_memory_mb = {} => r.max_memory_mb = MAX_MEMORY_MB
        /\ undo_levels = {} => r.undo_levels = UNDO_LEVELS
        /\ undo_levels # {} =>
             /\ r.undo_levels = Val(undo_levels)
             /\ DOMAIN r.c.history = DOMAIN image_history \cap DOMAIN r.c.store
             /\ \A id \in DOMAIN r.c.history :
                  r.c.history[id] = MostRecent(image_history[id], Val(undo_levels))

\* configure_limits has returned with undo_levels below the largest value, and an
\* image holds exactly that many snapshots, the kept one unlike its content.
C15_Witness ==
  /\ ret.op = "configure_limits"
  /\ UNDO_LEVELS < MaxUndoArg
  /\ \E id \in Resident :
       /\ UndoCount(image_history, id) = UNDO_LEVELS
       /\ Last(image_history[id]) # image_store[id]

\* C16: when store_image stores an image whose own encoded size exceeds
\* max_memory_mb, eviction removes every resident image including the one just
\* stored; store_image still returns the id without error, and the cache is
\* empty afterwards.
C16_OversizeEmptiesCache ==
  [][ ( /\ ret'.op = "store_image"
        /\ PngEncode(ret'.img).len > MAX_MEMORY_MB * BytesPerMB )
        => /\ ret'.err = "none"
           /\ ret'.id # NoId
           /\ Resident' = {}
           /\ image_order' = <<>>
    ]_vars

\* This step is a successful read of id by one of the three reads.
IsRead(id) ==
  /\ id \in Resident
  /\ ret'.op \in {"get_image", "tool_get_image", "image_to_base64"}
  /\ GetImage(id) \/ ToolGetImage(id) \/ ImageToBase64(id)

\* C17: every successful read of an image by id (storage get_image, the
\* get_image tool, image_to_base64) moves that id to the tail of the LRU order.
C17_ReadMovesToTail ==
  [][ \A id \in AllIds :
        IsRead(id) => (image_order' # <<>> /\ Last(image_order') = id)
    ]_vars

\* ------------------------------------------------------- position resolver

\* Numbers that Python holds as floats are counted in hundredths: 50 is 0.5.
\* int() of a float rounds toward zero.
TruncDiv(n, d) == IF n >= 0 THEN n \div d ELSE 0 - ((0 - n) \div d)

Max2(a, b) == IF a >= b THEN a ELSE b

Min2(a, b) == IF a <= b THEN a ELSE b

\* _NAMED_POSITIONS, in hundredths of the canvas
NAMED_POSITIONS ==
  [ n \in { "top-left", "top-center", "top-right", "center-left", "center",
            "center-right", "bottom-left", "bottom-center", "bottom-right",
            "top-left-quarter", "top-right-quarter", "bottom-left-quarter",
            "bottom-right-quarter", "top-left-edge", "top-right-edge",
            "bottom-left-edge", "bottom-right-edge" } |->
      CASE n = "top-left"             -> <<5, 5>>
        [] n = "top-center"           -> <<50, 5>>
        [] n = "top-right"            -> <<95, 5>>
        [] n = "center-left"          -> <<5, 50>>
        [] n = "center"               -> <<50, 50>>
        [] n = "center-right"         -> <<95, 50>>
        [] n = "bottom-left"          -> <<5, 95>>
        [] n = "bottom-center"        -> <<50, 95>>
        [] n = "bottom-right"         -> <<95, 95>>
        [] n = "top-left-quarter"     -> <<25, 25>>
        [] n = "top-right-quarter"    -> <<75, 25>>
        [] n = "bottom-left-quarter"  -> <<25, 75>>
        [] n = "bottom-right-quarter" -> <<75, 75>>
        [] n = "top-left-edge"        -> <<0, 0>>
        [] n = "top-right-edge"       -> <<100, 0>>
        [] n = "bottom-left-edge"     -> <<0, 100>>
        [] n = "bottom-right-edge"    -> <<100, 100>> ]

\* _ANCHORS, in halves of the element
ANCHORS ==
  [ a \in { "top-left", "top-center", "top-right", "center-left", "center",
            "center-right", "bottom-left", "bottom-center", "bottom-right" } |->
      CASE a = "top-left"      -> <<0, 0>>
        [] a = "top-center"    -> <<1, 0>>
        [] a = "top-right"     -> <<2, 0>>
        [] a = "center-left"   -> <<0, 1>>
        [] a = "center"        -> <<1, 1>>
        [] a = "center-right"  -> <<2, 1>>
        [] a = "bottom-left"   -> <<0, 2>>
        [] a = "bottom-center" -> <<1, 2>>
        [] a = "bottom-right"  -> <<2, 2>> ]

\* _ANCHORS.get(anchor, (0.5, 0.5))
AnchorOf(anchor) == IF anchor \in DOMAIN ANCHORS THEN ANCHORS[anchor] ELSE <<1, 1>>

\* A token of a position string after split(",") and strip(): "25%" is
\* [form |-> "pct", v |-> 25], "150px" is [form |-> "px", v |-> 15000], the bare
\* "0.5" is [form |-> "bare", v |-> 50], and a "word" is no number.
Tok(form, v) == [form |-> form, v |-> v]

\* parse_value with a threshold of >= 1: the bare number 1 is a pixel value.
ParseValueOneIsPixels(tok) ==
  CASE tok.form = "pct"  -> [ok |-> TRUE, val |-> tok.v, abs |-> FALSE]
    [] tok.form = "px"   -> [ok |-> TRUE, val |-> tok.v, abs |-> TRUE]
    [] tok.form = "bare" -> [ok |-> TRUE, val |-> tok.v, abs |-> tok.v >= 100]
    [] tok.form = "inf"  -> [ok |-> TRUE, val |-> 0, abs |-> TRUE]
    [] tok.form = "nan"  -> [ok |-> TRUE, val |-> 0, abs |-> FALSE]
    [] OTHER             -> [ok |-> FALSE, val |-> 0, abs |-> FALSE]

\* parse_value that takes a token float() cannot read for 0.
ParseValueLenient(tok) ==
  CASE tok.form = "pct"  -> [ok |-> TRUE, val |-> tok.v, abs |-> FALSE]
    [] tok.form = "px"   -> [ok |-> TRUE, val |-> tok.v, abs |-> TRUE]
    [] tok.form = "bare" -> [ok |-> TRUE, val |-> tok.v, abs |-> tok.v > 100]
    [] tok.form = "inf"  -> [ok |-> TRUE, val |-> 0, abs |-> TRUE]
    [] tok.form = "nan"  -> [ok |-> TRUE, val |-> 0, abs |-> FALSE]
    [] OTHER             -> [ok |-> TRUE, val |-> 0, abs |-> FALSE]

\* parse_value: [ok, val, abs]; val in hundredths, ok false where float() raises.
\* float() reads "inf" (above 1, so absolute) and "nan" (not above 1); their val
\* is not used, int() fails on them.
parse_value(tok) ==
  CASE tok.form = "pct"  -> [ok |-> TRUE, val |-> tok.v, abs |-> FALSE]
    [] tok.form = "px"   -> [ok |-> TRUE, val |-> tok.v, abs |-> TRUE]
    [] tok.form = "bare" -> [ok |-> TRUE, val |-> tok.v, abs |-> tok.v > 100]
    [] tok.form = "inf"  -> [ok |-> TRUE, val |-> 0, abs |-> TRUE]
    [] tok.form = "nan"  -> [ok |-> TRUE, val |-> 0, abs |-> FALSE]
    [] OTHER             -> [ok |-> FALSE, val |-> 0, abs |-> FALSE]

\* int() of the coordinate a token gives: infinity cannot be converted
\* (OverflowError), nor can NaN (ValueError); any product with them stays so.
IntError(tok) ==
  CASE tok.form = "inf" -> "OverflowError"
    [] tok.form = "nan" -> "ValueError"
    [] OTHER            -> "none"

\* The clamp with the bounds taken in the other order: the upper bound wins.
ClampUpperWins(v, lo, hi) == Min2(Max2(lo, v), hi)

\* max(lo, min(v, hi))
Clamp(v, lo, hi) == Max2(lo, Min2(v, hi))

\* The coordinates with the offset left out.
PlaceNoOffset(x, y, image_width, image_height, element_width, element_height, anchor, offset_x, offset_y) ==
  LET a  == AnchorOf(anchor)
      x1 == x - TruncDiv(element_width * a[1], 2)
      y1 == y - TruncDiv(element_height * a[2], 2)
  IN  [err |-> "none",
       x |-> Clamp(x1, 10 - element_width, image_width - 10),
       y |-> Clamp(y1, 10 - element_height, image_height - 10)]

\* Anchor adjustment, offset and clamp of the pixel point (x, y).
Place(x, y, image_width, image_height, element_width, element_height, anchor, offset_x, offset_y) ==
  LET a  == AnchorOf(anchor)
      x1 == x - TruncDiv(element_width * a[1], 2)
      y1 == y - TruncDiv(element_height * a[2], 2)
      x2 == x1 + offset_x
      y2 == y1 + offset_y
  IN  [err |-> "none",
       x |-> Clamp(x2, 10 - element_width, image_width - 10),
       y |-> Clamp(y2, 10 - element_height, image_height - 10)]

\* The pixel point of a position before the anchor: [err, x, y].
PixelPoint(pos, image_width, image_height) ==
  CASE pos.kind = "tuple" ->
         LET is_absolute == pos.x > 100 \/ pos.y > 100
         IN  [err |-> "none",
              x |-> IF is_absolute THEN TruncDiv(pos.x, 100)
                    ELSE TruncDiv(pos.x * image_width, 100),
              y |-> IF is_absolute THEN TruncDiv(pos.y, 100)
                    ELSE TruncDiv(pos.y * image_height, 100)]
    [] pos.kind = "named" ->
         [err |-> "none",
          x |-> TruncDiv(NAMED_POSITIONS[pos.name][1] * image_width, 100),
          y |-> TruncDiv(NAMED_POSITIONS[pos.name][2] * image_height, 100)]
    [] OTHER ->
         IF Len(pos.parts) # 2 THEN [err |-> "ValueError", x |-> 0, y |-> 0]
         ELSE LET vx == parse_value(pos.parts[1])
                  vy == parse_value(pos.parts[2])
                  is_absolute == vx.abs \/ vy.abs
                  px == IF is_absolute /\ vx.abs THEN vx.val ELSE vx.val * image_width
                  py == IF is_absolute /\ vy.abs THEN vy.val ELSE vy.val * image_height
                  ex == IntError(pos.parts[1])
                  ey == IntError(pos.parts[2])
              IN  IF ~vx.ok \/ ~vy.ok THEN [err |-> "ValueError", x |-> 0, y |-> 0]
                  ELSE IF ex # "none" THEN [err |-> ex, x |-> 0, y |-> 0]
                  ELSE IF ey # "none" THEN [err |-> ey, x |-> 0, y |-> 0]
                  ELSE [err |-> "none", x |-> TruncDiv(px, 100), y |-> TruncDiv(py, 100)]

\* _parse_position: [err, x, y]
parse_position(pos, image_width, image_height, element_width, element_height, anchor, offset_x, offset_y) ==
  IF pos.kind = "none" THEN [err |-> "none", x |-> 0, y |-> 0]
  ELSE LET p == PixelPoint(pos, image_width, image_height)
       IN  IF p.err # "none" THEN p
           ELSE Place(p.x, p.y, image_width, image_height, element_width,
                      element_height, anchor, offset_x, offset_y)

\* The positions a call is made with.
Pos(kind, name, parts, x, y) ==
  [kind |-> kind, name |-> name, parts |-> parts, x |-> x, y |-> y]

NonePos == Pos("none", "", <<>>, 0, 0)

NamedPos(name) == Pos("named", name, <<>>, 0, 0)

StringPos(parts) == Pos("string", "", parts, 0, 0)

TuplePos(x, y) == Pos("tuple", "", <<>>, x, y)

\* "25%", "75%", "150%", "0.5", "1", "0", "-0.5", "1.5", "150", "200", "100px",
\* "0.5px", "left", "inf" and "nan".
Tokens ==
  { Tok("pct", 25), Tok("pct", 75), Tok("pct", 150), Tok("bare", 50),
    Tok("bare", 100), Tok("bare", 0), Tok("bare", 0 - 50), Tok("bare", 150),
    Tok("bare", 15000), Tok("bare", 20000), Tok("px", 10000), Tok("px", 50),
    Tok("word", 0), Tok("inf", 0), Tok("nan", 0) }

Positions ==
  {NonePos}
    \cup { NamedPos(n) : n \in DOMAIN NAMED_POSITIONS }
    \cup { StringPos(<<a, b>>) : a \in Tokens, b \in Tokens }
    \cup { StringPos(<<a>>) : a \in {Tok("word", 0), Tok("bare", 50)} }
    \cup { StringPos(<<a, a, a>>) : a \in {Tok("pct", 25), Tok("bare", 15000)} }
    \cup { TuplePos(50, 50), TuplePos(50, 20000), TuplePos(15000, 20000) }

\* Canvas and element sizes <<width, height>>, anchors and offsets <<x, y>>.
Canvases == { <<400, 300>>, <<100, 19>>, <<15, 8>> }

Elements == { <<0, 0>>, <<100, 50>>, <<15, 5>> }

AnchorNames == { "center", "top-left", "bottom-right", "middle" }

Offsets == { <<0, 0>>, <<0 - 500, 7>>, <<3, 500>> }

\* The adjustment that moves the right and bottom edges inside and then steps
\* back by the size: a second application steps back again.
AutoAdjustStepsBack(x, y, width, height, image_width, image_height, padding) ==
  << Max2(padding, Min2(x, image_width - padding) - width),
     Max2(padding, Min2(y, image_height - padding) - height) >>

\* The adjustment with the two bounds applied in the other order: the upper
\* bound wins where the bounds cross.
AutoAdjustUpperWins(x, y, width, height, image_width, image_height, padding) ==
  << Min2(image_width - width - padding, Max2(padding, x)),
     Min2(image_height - height - padding, Max2(padding, y)) >>

\* _auto_adjust_position: <<x, y>>
auto_adjust_position(x, y, width, height, image_width, image_height, padding) ==
  << Max2(padding, Min2(x, image_width - width - padding)),
     Max2(padding, Min2(y, image_height - height - padding)) >>

\* The points, sizes <<width, height>> and paddings _auto_adjust_position is
\* called with; 10 is the default padding.
AdjustPoints == { <<395, 295>>, <<0 - 5, 10>>, <<200, 0 - 5>>, <<10, 150>>, <<0, 0>> }

AdjustSizes == { <<50, 30>>, <<0, 0>>, <<400, 300>>, <<390, 10>>, <<90, 1>> }

Paddings == { 10, 0, 3 }

\* A call of _auto_adjust_position (op "call_adjust") and the call with its result.
AdjustCall(op, point, size, canvas, padding, result) ==
  [op |-> op, in_x |-> point[1], in_y |-> point[2],
   width |-> size[1], height |-> size[2],
   image_width |-> canvas[1], image_height |-> canvas[2], padding |-> padding,
   x |-> result[1], y |-> result[2]]

\* A call of _parse_position (op "call") and the call with its result.
PositionCall(op, pos, canvas, element, anchor, offset, result) ==
  [op |-> op, pos |-> pos, image_width |-> canvas[1], image_height |-> canvas[2],
   element_width |-> element[1], element_height |-> element[2],
   anchor |-> anchor, offset_x |-> offset[1], offset_y |-> offset[2],
   err |-> result.err, x |-> result.x, y |-> result.y]

NoResult == [err |-> "pending", x |-> 0, y |-> 0]

\* The cache is empty and stays so; ret holds the arguments of the call.
InitPosition ==
  /\ image_store = <<>>
  /\ image_history = <<>>
  /\ image_metadata = <<>>
  /\ image_order = <<>>
  /\ image_counter = 0
  /\ MAX_IMAGES = MaxImagesArg
  /\ MAX_MEMORY_MB = CHOOSE m \in MemChoices : \A n \in MemChoices : m >= n
  /\ UNDO_LEVELS = MaxUndoArg
  /\ callout_counter = 0
  /\ scen = ScenIdle
  /\ \/ \E pos \in Positions, canvas \in Canvases, element \in Elements,
           anchor \in AnchorNames, offset \in Offsets :
          ret = PositionCall("call", pos, canvas, element, anchor, offset, NoResult)
     \/ \E point \in AdjustPoints, size \in AdjustSizes, canvas \in Canvases,
           padding \in Paddings :
          ret = AdjustCall("call_adjust", point, size, canvas, padding, <<0, 0>>)

\* _parse_position runs on the arguments in ret.
ParsePosition ==
  /\ ret.op = "call"
  /\ \E r \in { parse_position(ret.pos, ret.image_width, ret.image_height,
                                ret.element_width, ret.element_height, ret.anchor,
                                ret.offset_x, ret.offset_y) } :
       ret' = [ret EXCEPT !.op = "_parse_position", !.err = r.err, !.x = r.x, !.y = r.y]
  /\ UNCHANGED << image_store, image_history, image_metadata, image_order,
                  image_counter, MAX_IMAGES, MAX_MEMORY_MB, UNDO_LEVELS, callout_counter, scen >>

\* _auto_adjust_position runs on the arguments in ret.
AutoAdjustPosition ==
  /\ ret.op = "call_adjust"
  /\ \E r \in { auto_adjust_position(ret.in_x, ret.in_y, ret.width, ret.height,
                                     ret.image_width, ret.image_height, ret.padding) } :
       ret' = [ret EXCEPT !.op = "_auto_adjust_position", !.x = r[1], !.y = r[2]]
  /\ UNCHANGED << image_store, image_history, image_metadata, image_order,
                  image_counter, MAX_IMAGES, MAX_MEMORY_MB, UNDO_LEVELS, callout_counter, scen >>

NextPosition == ParsePosition \/ AutoAdjustPosition

SpecPosition == InitPosition /\ [][NextPosition]_vars

\* _parse_position has returned coordinates.
Resolved == ret.op = "_parse_position" /\ ret.err = "none"

\* C18 as claimed: whenever _parse_position returns, -elemW+10 <= x <= canvasW-10
\* and -elemH+10 <= y <= canvasH-10, also on canvases narrower than 20 - elemW.
C18_WithinBounds ==
  Resolved =>
    /\ 10 - ret.element_width <= ret.x /\ ret.x <= ret.image_width - 10
    /\ 10 - ret.element_height <= ret.y /\ ret.y <= ret.image_height - 10

\* v is in [lo, hi] if there is such a value, and is lo if lo > hi.
InBoundsLowerWins(v, lo, hi) ==
  /\ lo <= v
  /\ lo <= hi => v <= hi
  /\ lo > hi => v = lo

\* C18 as amended: whenever _parse_position returns for a position that is not
\* None, -elemW+10 <= x and -elemH+10 <= y; x <= canvasW-10 if the canvas is at
\* least 20 - elemW wide and x = -elemW+10 if it is narrower, and the same for y
\* with the heights; for the position None it returns (0, 0) without a clamp.
C18_WithinBoundsLowerWins ==
  Resolved =>
    IF ret.pos.kind = "none" THEN ret.x = 0 /\ ret.y = 0
    ELSE /\ InBoundsLowerWins(ret.x, 10 - ret.element_width, ret.image_width - 10)
         /\ InBoundsLowerWins(ret.y, 10 - ret.element_height, ret.image_height - 10)

\* _parse_position has returned, for a position that is not None on a canvas
\* narrower than 20 - elemW, an x above canvasW - 10.
C18_Witness ==
  /\ Resolved
  /\ ret.pos.kind # "none"
  /\ ret.image_width < 20 - ret.element_width
  /\ ret.x > ret.image_width - 10

\* The anchor's fraction in halves as the claim gives it: an unknown anchor
\* counts as the centre.
AnchorHalves(anchor) ==
  CASE anchor \in {"top-left", "center-left", "bottom-left"}       -> 0
    [] anchor \in {"top-right", "center-right", "bottom-right"}    -> 2
    [] OTHER                                                       -> 1

AnchorHalvesY(anchor) ==
  CASE anchor \in {"top-left", "top-center", "top-right"}          -> 0
    [] anchor \in {"bottom-left", "bottom-center", "bottom-right"} -> 2
    [] OTHER                                                       -> 1

\* clamp(point - trunc(elem * anchor fraction) + offset) on one axis.
Expected(point, elem, halves, offset, canvas) ==
  Max2(10 - elem, Min2(point - TruncDiv(elem * halves, 2) + offset, canvas - 10))

\* ret is the result of the call with these arguments.
IsResultOf(pos, canvas, element, anchor, offset) ==
  /\ ret.op = "_parse_position"
  /\ ret.pos = pos
  /\ <<ret.image_width, ret.image_height>> = canvas
  /\ <<ret.element_width, ret.element_height>> = element
  /\ ret.anchor = anchor
  /\ <<ret.offset_x, ret.offset_y>> = offset

\* The position is a name of the vocabulary or two percentages.
IsNamedOrPercent(pos) ==
  \/ pos.kind = "named"
  \/ /\ pos.kind = "string"
     /\ Len(pos.parts) = 2
     /\ pos.parts[1].form = "pct"
     /\ pos.parts[2].form = "pct"

\* Its fractions (fx, fy) in hundredths.
FractionsOf(pos) ==
  IF pos.kind = "named" THEN NAMED_POSITIONS[pos.name]
  ELSE << pos.parts[1].v, pos.parts[2].v >>

\* C19: for a named or percentage position with fractions (fx, fy),
\* _parse_position returns clamp(trunc(canvasW*fx) - trunc(elemW*ax) + offsetX)
\* and the same for y, an unknown anchor counting as (0.5, 0.5); "center" on
\* 400x300 gives (200, 150), "25%, 75%" gives (100, 225), and "top-left" with a
\* 100x50 element and anchor top-left gives (20, 15).
C19_NamedAndPercent ==
  /\ (ret.op = "_parse_position" /\ IsNamedOrPercent(ret.pos)) =>
        /\ ret.err = "none"
        /\ ret.x = Expected(TruncDiv(ret.image_width * FractionsOf(ret.pos)[1], 100),
                            ret.element_width, AnchorHalves(ret.anchor),
                            ret.offset_x, ret.image_width)
        /\ ret.y = Expected(TruncDiv(ret.image_height * FractionsOf(ret.pos)[2], 100),
                            ret.element_height, AnchorHalvesY(ret.anchor),
                            ret.offset_y, ret.image_height)
  /\ IsResultOf(NamedPos("center"), <<400, 300>>, <<0, 0>>, "center", <<0, 0>>)
        => <<ret.x, ret.y>> = <<200, 150>>
  /\ IsResultOf(StringPos(<<Tok("pct", 25), Tok("pct", 75)>>), <<400, 300>>,
                <<0, 0>>, "center", <<0, 0>>)
        => <<ret.x, ret.y>> = <<100, 225>>
  /\ IsResultOf(NamedPos("top-left"), <<400, 300>>, <<100, 50>>, "top-left", <<0, 0>>)
        => <<ret.x, ret.y>> = <<20, 15>>

\* _parse_position has placed a 15x5 element by an unknown anchor and a non-zero
\* offset at a point strictly inside the clamp.
C19_Witness ==
  /\ Resolved
  /\ IsNamedOrPercent(ret.pos)
  /\ ret.anchor \notin DOMAIN ANCHORS
  /\ ret.element_width = 15
  /\ ret.offset_x # 0
  /\ 10 - ret.element_width < ret.x /\ ret.x < ret.image_width - 10

\* The token is an absolute pixel value: px-suffixed, or a bare number above 1.
IsPixels(tok) == tok.form = "px" \/ (tok.form = "bare" /\ tok.v > 100)

\* The point a numeric token designates on an axis: its value if absolute, else
\* the fraction of the canvas dimension.
PointOf(tok, canvas) ==
  IF IsPixels(tok) THEN TruncDiv(tok.v, 100) ELSE TruncDiv(tok.v * canvas, 100)

IsTwoNumbers(pos) ==
  /\ pos.kind = "string"
  /\ Len(pos.parts) = 2
  /\ pos.parts[1].form \in {"pct", "px", "bare"}
  /\ pos.parts[2].form \in {"pct", "px", "bare"}

\* C20: in a two-token position a bare number <= 1 is a fraction of the canvas
\* dimension and a bare number > 1 or a px-suffixed number an absolute pixel
\* value; if either token is absolute the other, when fractional, is multiplied
\* by its canvas dimension; "150, 200" on 400x300 with zero element size gives
\* (150, 200) and "0.5, 200" gives (200, 200).
C20_FractionOrPixels ==
  /\ (ret.op = "_parse_position" /\ IsTwoNumbers(ret.pos)) =>
        /\ ret.err = "none"
        /\ ret.x = Expected(PointOf(ret.pos.parts[1], ret.image_width),
                            ret.element_width, AnchorHalves(ret.anchor),
                            ret.offset_x, ret.image_width)
        /\ ret.y = Expected(PointOf(ret.pos.parts[2], ret.image_height),
                            ret.element_height, AnchorHalvesY(ret.anchor),
                            ret.offset_y, ret.image_height)
  /\ IsResultOf(StringPos(<<Tok("bare", 15000), Tok("bare", 20000)>>), <<400, 300>>,
                <<0, 0>>, "center", <<0, 0>>)
        => <<ret.x, ret.y>> = <<150, 200>>
  /\ IsResultOf(StringPos(<<Tok("bare", 50), Tok("bare", 20000)>>), <<400, 300>>,
                <<0, 0>>, "center", <<0, 0>>)
        => <<ret.x, ret.y>> = <<200, 200>>

\* _parse_position has resolved "1, 200" on the 400x300 canvas with zero element
\* size: the bare 1 is the fraction 1 of the width beside an absolute token.
C20_Witness ==
  /\ IsResultOf(StringPos(<<Tok("bare", 100), Tok("bare", 20000)>>), <<400, 300>>,
                <<0, 0>>, "center", <<0, 0>>)
  /\ <<ret.x, ret.y>> = <<390, 200>>

\* The string is no name of the vocabulary and is not two tokens that float()
\* reads: it has one or three tokens, or a token that is no number.
IsMalformed(pos) ==
  /\ pos.kind = "string"
  /\ \/ Len(pos.parts) # 2
     \/ \E i \in 1 .. Len(pos.parts) : pos.parts[i].form = "word"

\* C21: _parse_position fails with ValueError, the invalid-position error, for
\* every string that is not a named position and does not consist of exactly
\* two numeric tokens (an unknown name, one token, three tokens, a non-numeric
\* token), and it returns no coordinates for it; nor does it return coordinates
\* when a token is "inf" or "nan".
C21_MalformedFails ==
  ret.op = "_parse_position" =>
    /\ IsMalformed(ret.pos) => ret.err = "ValueError"
    /\ ( /\ ret.pos.kind = "string"
         /\ \E i \in 1 .. Len(ret.pos.parts) : ret.pos.parts[i].form \in {"inf", "nan"} )
         => ret.err # "none"

\* _parse_position has failed on two tokens of which the first is a number and
\* the second is not.
C21_Witness ==
  /\ ret.op = "_parse_position"
  /\ ret.err = "ValueError"
  /\ ret.pos.kind = "string"
  /\ Len(ret.pos.parts) = 2
  /\ ret.pos.parts[1].form = "bare"
  /\ ret.pos.parts[2].form = "word"

Adjusted == ret.op = "_auto_adjust_position"

\* C22 as claimed: for every input _auto_adjust_position returns padding <= x,
\* x + width <= image_width - padding, padding <= y and
\* y + height <= image_height - padding, also when width + 2*padding > image_width.
C22_FullyInside ==
  Adjusted =>
    /\ ret.padding <= ret.x
    /\ ret.x + ret.width <= ret.image_width - ret.padding
    /\ ret.padding <= ret.y
    /\ ret.y + ret.height <= ret.image_height - ret.padding

\* C22 as amended: _auto_adjust_position returns padding <= x and padding <= y;
\* x + width <= image_width - padding if width + 2*padding <= image_width, and
\* x = padding if the element with its padding is wider than the canvas; the
\* same for y with the heights.
C22_InsideIfItFits ==
  Adjusted =>
    /\ InBoundsLowerWins(ret.x, ret.padding, ret.image_width - ret.width - ret.padding)
    /\ InBoundsLowerWins(ret.y, ret.padding, ret.image_height - ret.height - ret.padding)

\* _auto_adjust_position has returned for an element that with its padding is
\* wider than the canvas: the right edge is beyond image_width - padding.
C22_Witness ==
  /\ Adjusted
  /\ ret.width + 2 * ret.padding > ret.image_width
  /\ ret.x = ret.padding
  /\ ret.x + ret.width > ret.image_width - ret.padding

\* C23: both clamps are idempotent: _auto_adjust_position applied to its own
\* output with the same sizes returns that output, and the resolver's clamp
\* applied to a coordinate it has clamped returns it unchanged, also where the
\* lower bound exceeds the upper bound.
C23_ClampsIdempotent ==
  /\ Adjusted =>
        auto_adjust_position(ret.x, ret.y, ret.width, ret.height, ret.image_width,
                             ret.image_height, ret.padding) = <<ret.x, ret.y>>
  /\ (Resolved /\ ret.pos.kind # "none") =>
        /\ Clamp(ret.x, 10 - ret.element_width, ret.image_width - 10) = ret.x
        /\ Clamp(ret.y, 10 - ret.element_height, ret.image_height - 10) = ret.y

\* _auto_adjust_position has moved a point, for sizes where the lower bound
\* exceeds the upper bound on one axis and not on the other.
C23_Witness ==
  /\ Adjusted
  /\ <<ret.x, ret.y>> # <<ret.in_x, ret.in_y>>
  /\ ret.padding > ret.image_width - ret.width - ret.padding
  /\ ret.padding <= ret.image_height - ret.height - ret.padding

\* ------------------------------------------------------- session archives

\* One record of a manifest with the files of its image: the PNG under
\* images/<id>.png and the snapshots under history/<id>/<n>.png, oldest first.
Entry(id, data, width, height, history) ==
  [id |-> id, data |-> data, width |-> width, height |-> height, history |-> history]

ImageA == CHOOSE image \in Images : image.pix = "A"

ImageB == CHOOSE image \in Images : image.pix = "B"

\* What export_session(include_history=True) writes for a session that holds
\* the id <<0, 1>> after MaxUndoArg overwrites, with undo_levels = MaxUndoArg
\* and two callouts drawn.
ArchiveWithHistory ==
  [images |-> << Entry(<<0, 1>>, PngEncode(ImageA), 100, 100,
                       [i \in 1 .. MaxUndoArg |-> PngEncode(ImageA)]) >>,
   callout_counter |-> 2]

\* What export_session writes for a session that holds two ids without history.
ArchiveTwoImages ==
  [images |-> << Entry(OtherId, PngEncode(ImageB), 200, 100, <<>>),
                 Entry(<<0, MaxCounter>>, PngEncode(ImageA), 100, 100, <<>>) >>,
   callout_counter |-> 0]

Archives == {ArchiveWithHistory, ArchiveTwoImages}

EmptyCache == [store |-> <<>>, history |-> <<>>, metadata |-> <<>>, order |-> <<>>]

\* The body of import_session's loop for one record of the manifest.
ImportEntry(c, e, restore_history) ==
  [store    |-> Put(c.store, e.id, e.data),
   metadata |-> Put(c.metadata, e.id, <<e.width, e.height>>),
   order    |-> IF InSeq(c.order, e.id) THEN c.order ELSE Append(c.order, e.id),
   history  |-> IF restore_history /\ Len(e.history) > 0
                THEN Put(c.history, e.id, e.history)
                ELSE c.history]

RECURSIVE ImportEntries(_, _, _)
ImportEntries(c, entries, restore_history) ==
  IF entries = <<>> THEN c
  ELSE ImportEntries(ImportEntry(c, Head(entries), restore_history), Tail(entries),
                     restore_history)

\* The ids of the records of an archive.
ArchiveIds(archive) == { archive.images[i].id : i \in 1 .. Len(archive.images) }

\* import_session before its eviction pass: the cache with the archive's images.
ImportInsert(archive, merge, restore_history) ==
  ImportEntries(IF merge THEN Cache ELSE EmptyCache, archive.images, restore_history)

\* import_session of server.py
ImportSession(archive, merge, restore_history) ==
  \E ev \in { evict_if_needed(ImportInsert(archive, merge, restore_history),
                               MAX_IMAGES, MAX_MEMORY_MB) } :
    /\ SetCache(ev.c)
    /\ callout_counter' = IF merge THEN callout_counter ELSE archive.callout_counter
    /\ ret' = Outcome("import_session", NoId, "none", NoImage, FALSE, FALSE)
    /\ scen' = ScenIdle
    /\ UNCHANGED <<image_counter, MAX_IMAGES, MAX_MEMORY_MB, UNDO_LEVELS>>

\* The tools of one session on the ids the session holds, import_session
\* among them.
NextSession ==
  \/ \E image \in Images, ts \in Timestamps : StoreNew(image, TRUE, ts)
  \/ \E image \in Images, image_id \in DOMAIN image_store : StoreAt(image, image_id, TRUE)
  \/ \E image_id \in DOMAIN image_store : GetImage(image_id)
  \/ \E image_id \in DOMAIN image_store : Undo(image_id)
  \/ \E image_id \in DOMAIN image_store : DeleteImage(image_id)
  \/ \E max_images \in Opt(1 .. MaxImagesArg), max_memory_mb \in Opt(MemChoices),
        undo_levels \in Opt(1 .. MaxUndoArg) :
       ConfigureLimits(max_images, max_memory_mb, undo_levels)
  \/ \E archive \in Archives, merge \in BOOLEAN, restore_history \in BOOLEAN :
       ImportSession(archive, merge, restore_history)

SpecSession == Init /\ [][NextSession]_vars

\* C24: every id generate_image_id returns differs from all ids it returned
\* before (the counter in it grows with every call), and a newly generated id
\* never equals an id that is resident, ids brought in by import_session
\* included.
C24_GeneratedIdIsFresh ==
  [][ (ret'.op = "store_image" /\ ret'.new)
        => /\ image_counter' = image_counter + 1
           /\ ret'.id[2] = image_counter'
           /\ ret'.id \notin Resident
    ]_vars

\* The ids of a list are pairwise different.
NoDuplicates(list) ==
  \A i, j \in 1 .. Len(list) : list[i] = list[j] => i = j

\* C25: in every reachable state the LRU order lists each resident id exactly
\* once and no other id, the metadata is recorded for exactly the resident ids,
\* and every id with undo history is resident.
C25_CacheConsistent ==
  /\ Range(image_order) = Resident
  /\ NoDuplicates(image_order)
  /\ DOMAIN image_metadata = Resident
  /\ \A id \in DOMAIN image_history : image_history[id] # <<>> => id \in Resident

\* The content of image_id and its undo snapshots fit within max_memory_mb.
FitsAlone(c, image_id, max_memory_mb) ==
  c.store[image_id].len + (IF image_id \in DOMAIN c.history
                           THEN SumLen(c.history[image_id]) ELSE 0)
    <= max_memory_mb * BytesPerMB

\* C26: with max_images >= 1, the id store_image returns is resident when the
\* call returns, whenever its content together with its undo snapshots fits
\* within max_memory_mb; stated of every call that can be made in the state.
C26_ReturnedIdResidentIfFits ==
  \A image \in Images, image_id \in Opt(Known), save_history \in BOOLEAN :
    \E ins \in {StoreInsert(image, image_id, save_history, 0)} :
      (MAX_IMAGES >= 1 /\ FitsAlone(ins.c, ins.id, MAX_MEMORY_MB))
        => ins.id \in DOMAIN store_image(image, image_id, save_history, 0).c.store

\* The limit settings of an eviction pass.
EvictImages == 0 .. MaxImagesArg

EvictMemory == AnyMaxMemoryMB

\* C27: evict_if_needed ends from every reachable state under every limit
\* setting; when it returns the LRU order is empty or the count is within
\* max_images and the memory within max_memory_mb, and a second pass right
\* after it removes nothing.
C27_EvictionReachesFixedPoint ==
  \A max_images \in EvictImages, max_memory_mb \in EvictMemory :
    \E r \in {evict_if_needed(Cache, max_images, max_memory_mb)} :
      /\ \/ r.c.order = <<>>
         \/ /\ Cardinality(DOMAIN r.c.store) <= max_images
            /\ ~OverMemory(r.c, max_memory_mb)
      /\ \E again \in {evict_if_needed(r.c, max_images, max_memory_mb)} :
           again.evicted = <<>> /\ again.c = r.c

\* A state from which a pass under one image and the smallest memory removes
\* two ids, the second one by memory, and leaves the order empty with an image
\* still stored.
C27_Witness ==
  \E r \in {evict_if_needed(Cache, 1, BadMaxMemoryMB)} :
    /\ Len(r.evicted) >= 2
    /\ r.c.order = <<>>
    /\ Len(EvictByCount(Cache, 1, <<>>).evicted) < Len(r.evicted)

\* C28: after import_session, with merge true or false and restore_history
\* true or false, every resident id's history is at most undo_levels long and
\* the count and the memory are within max_images and max_memory_mb; with
\* merge false no image that was resident before and is not in the archive
\* remains.
C28_ImportRespectsLimits ==
  [][ ret'.op = "import_session"
        => /\ \A id \in Resident' : UndoCount(image_history', id) <= UNDO_LEVELS'
           /\ Cardinality(Resident') <= MAX_IMAGES'
           /\ ~OverMemory(Cache', MAX_MEMORY_MB')
           /\ \A archive \in Archives, restore_history \in BOOLEAN :
                ImportSession(archive, FALSE, restore_history)
                  => Resident' \subseteq ArchiveIds(archive)
    ]_vars

\* ------------------------------------------------------------ annotations

\* Most drawings the model puts on one image.
MaxMarks == 2
\* Largest value the model lets _callout_counter reach.
MaxCallout == 2
\* A number passed by the caller of add_numbered_callout or annotate_step.
ExplicitNumber == 7

\* One drawing: its kind, where it was put and the number written in it.
Mark(type, x, y, number) == [type |-> type, x |-> x, y |-> y, number |-> number]

\* The image with one more drawing on it.
Draw(image, mark) == [image EXCEPT !.marks = Append(@, mark)]

\* The globals a tool works on, and the error it ended with.
World(c, callout, err) == [c |-> c, callout |-> callout, err |-> err]

\* store_image(image, image_id) on cache c for an id the caller passes, with
\* save_history at its default: the cache after the call.
StoreOver(c, image, image_id) ==
  LET hist == IF image_id \in DOMAIN c.store
              THEN PushHistory(c.history, image_id, c.store[image_id], UNDO_LEVELS)
              ELSE c.history
      c1   == [store    |-> Put(c.store, image_id, PngEncode(image)),
               history  |-> hist,
               metadata |-> Put(c.metadata, image_id, <<image.w, image.h>>),
               order    |-> touch_image(c.order, image_id)]
  IN  evict_if_needed(c1, MAX_IMAGES, MAX_MEMORY_MB).c

\* get_image of storage.py on cache c for a resident id: the cache after the touch.
Fetch(c, image_id) == [c EXCEPT !.order = touch_image(c.order, image_id)]

\* annotate of server.py for the types box and callout, all other arguments at
\* their defaults: the world after the call.
annotate(w, image_id, annotation_type, position) ==
  IF image_id \notin DOMAIN w.c.store THEN World(w.c, w.callout, "NotFound")
  ELSE LET c1    == Fetch(w.c, image_id)
           image == PngDecode(w.c.store[image_id])
           ew    == Max2(100, image.w \div 5)
           eh    == Max2(60, image.h \div 8)
           p     == parse_position(position, image.w, image.h, ew, eh, "center", 0, 0)
       IN  IF p.err # "none" THEN World(c1, w.callout, p.err)
           ELSE IF annotation_type = "callout"
             THEN World(StoreOver(c1, Draw(image, Mark("callout", p.x, p.y, w.callout + 1)),
                                  image_id),
                        w.callout + 1, "none")
           ELSE LET a == auto_adjust_position(p.x, p.y, ew, eh, image.w, image.h, 10)
                IN  World(StoreOver(c1, Draw(image, Mark("box", a[1], a[2], 0)), image_id),
                          w.callout, "none")

\* One object of the JSON array; type "" is an object without "type".
AnnotationSpec(type, position) == [type |-> type, position |-> position]

\* The loop of batch_annotate over the objects that are left.
RECURSIVE BatchFrom(_, _, _)
BatchFrom(w, image_id, specs) ==
  IF specs = <<>> THEN w
  ELSE IF Head(specs).type = "" THEN World(w.c, w.callout, "ValueError")
  ELSE LET w1 == annotate(w, image_id, Head(specs).type, Head(specs).position)
       IN  IF w1.err # "none" THEN w1 ELSE BatchFrom(w1, image_id, Tail(specs))

\* batch_annotate of server.py: annotations is text that is a JSON array
\* (valid) or is not.
batch_annotate(w, image_id, annotations) ==
  IF ~annotations.valid THEN World(w.c, w.callout, "ValueError")
  ELSE BatchFrom(w, image_id, annotations.specs)

\* add_numbered_callout of server.py: number is None ({}) or given.
add_numbered_callout(w, image_id, number) ==
  LET callout == IF number = {} THEN w.callout + 1 ELSE w.callout
      n       == IF number = {} THEN callout ELSE Val(number)
  IN  IF image_id \notin DOMAIN w.c.store THEN World(w.c, callout, "NotFound")
      ELSE LET image == PngDecode(w.c.store[image_id])
           IN  World(StoreOver(Fetch(w.c, image_id),
                               Draw(image, Mark("number", 50, 50, n)), image_id),
                     callout, "none")

\* annotate_step of server.py: step_number is None ({}) or given.
annotate_step(w, image_id, step_number, target_position) ==
  LET callout == IF step_number = {} THEN w.callout + 1 ELSE w.callout
      n       == IF step_number = {} THEN callout ELSE Val(step_number)
  IN  IF image_id \notin DOMAIN w.c.store THEN World(w.c, callout, "NotFound")
      ELSE LET c1    == Fetch(w.c, image_id)
               image == PngDecode(w.c.store[image_id])
               p     == parse_position(target_position, image.w, image.h, 0, 0, "center", 0, 0)
           IN  IF p.err # "none" THEN World(c1, callout, p.err)
               ELSE World(StoreOver(c1, Draw(image, Mark("step", p.x, p.y, n)), image_id),
                          callout, "none")

\* The positions the annotation tools are called with: "center" and "left".
ToolPositions == { NamedPos("center"), StringPos(<<Tok("word", 0)>>) }

Specs ==
  { AnnotationSpec(t, NamedPos("center")) : t \in {"box", "callout", ""} }
    \cup { AnnotationSpec("box", StringPos(<<Tok("word", 0)>>)) }

\* The texts batch_annotate is called with: no JSON array, and the arrays of
\* one and of two objects.
Annotations ==
  { [valid |-> FALSE, specs |-> <<>>] }
    \cup { [valid |-> TRUE, specs |-> <<a>>] : a \in Specs }
    \cup { [valid |-> TRUE, specs |-> <<a, b>>] : a \in Specs, b \in Specs }

\* The drawings on the current content of image_id.
MarksOn(image_id) ==
  IF image_id \in DOMAIN image_store THEN Len(image_store[image_id].marks) ELSE 0

\* A tool has returned the world w.
ToolReturns(op, image_id, w) ==
  /\ SetCache(w.c)
  /\ callout_counter' = w.callout
  /\ ret' = Outcome(op, image_id, w.err, NoImage, FALSE, FALSE)
  /\ scen' = ScenIdle
  /\ UNCHANGED <<image_counter, MAX_IMAGES, MAX_MEMORY_MB, UNDO_LEVELS>>

Annotate(image_id, annotation_type, position) ==
  /\ MarksOn(image_id) < MaxMarks
  /\ callout_counter < MaxCallout
  /\ \E w \in { annotate(World(Cache, callout_counter, "none"), image_id,
                           annotation_type, position) } :
       ToolReturns("annotate", image_id, w)

BatchAnnotate(image_id, annotations) ==
  /\ MarksOn(image_id) + Len(annotations.specs) <= MaxMarks
  /\ callout_counter + Len(annotations.specs) <= MaxCallout
  /\ \E w \in { batch_annotate(World(Cache, callout_counter, "none"), image_id,
                                 annotations) } :
       ToolReturns("batch_annotate", image_id, w)

AddNumberedCallout(image_id, number) ==
  /\ MarksOn(image_id) < MaxMarks
  /\ callout_counter < MaxCallout
  /\ \E w \in { add_numbered_callout(World(Cache, callout_counter, "none"), image_id,
                                       number) } :
       ToolReturns("add_numbered_callout", image_id, w)

AnnotateStep(image_id, step_number, target_position) ==
  /\ MarksOn(image_id) < MaxMarks
  /\ callout_counter < MaxCallout
  /\ \E w \in { annotate_step(World(Cache, callout_counter, "none"), image_id,
                                step_number, target_position) } :
       ToolReturns("annotate_step", image_id, w)

\* reset_callout_counter of server.py
ResetCalloutCounter ==
  /\ callout_counter' = 0
  /\ ret' = Outcome("reset_callout_counter", NoId, "none", NoImage, FALSE, FALSE)
  /\ scen' = ScenIdle
  /\ UNCHANGED << image_store, image_history, image_metadata, image_order,
                  image_counter, MAX_IMAGES, MAX_MEMORY_MB, UNDO_LEVELS >>

\* The ids the annotation tools are called with: the resident ones and one
\* that is not.
Targets == DOMAIN image_store \cup {OtherId}

\* One image at a time is loaded, drawn on and restored.
NextAnnotate ==
  \/ \E image \in Images, ts \in Timestamps :
       image_store = <<>> /\ StoreNew(image, TRUE, ts)
  \/ \E image_id \in Targets, annotation_type \in {"box", "callout"},
        position \in ToolPositions :
       Annotate(image_id, annotation_type, position)
  \/ \E image_id \in Targets, annotations \in Annotations :
       BatchAnnotate(image_id, annotations)
  \/ \E image_id \in Targets, number \in Opt({ExplicitNumber}) :
       AddNumberedCallout(image_id, number)
  \/ \E image_id \in Targets, step_number \in Opt({ExplicitNumber}),
        target_position \in ToolPositions :
       AnnotateStep(image_id, step_number, target_position)
  \/ ResetCalloutCounter
  \/ \E image_id \in Targets : Undo(image_id)

SpecAnnotate == Init /\ [][NextAnnotate]_vars

\* This step is an operation on image_id that takes its number from the
\* callout counter: add_numbered_callout or annotate_step without a number,
\* or annotate with the type callout.
IsAutoNumbered(image_id) ==
  \/ ret'.op = "add_numbered_callout" /\ AddNumberedCallout(image_id, {})
  \/ /\ ret'.op = "annotate_step"
     /\ \E target_position \in ToolPositions : AnnotateStep(image_id, {}, target_position)
  \/ /\ ret'.op = "annotate"
     /\ \E position \in ToolPositions : Annotate(image_id, "callout", position)

\* C29: an auto-numbered callout operation that fails because the id is not
\* resident leaves the callout counter unchanged, and one that succeeds takes
\* the next number, so that the numbers issued after a reset are 1, 2, 3, ...
\* without gaps.
C29_FailedCalloutKeepsCounter ==
  [][ \A image_id \in AllIds :
        IsAutoNumbered(image_id)
          => /\ ret'.err = "NotFound" => callout_counter' = callout_counter
             /\ ret'.err = "none" => callout_counter' = callout_counter + 1
    ]_vars

\* C30: batch_annotate is all-or-nothing: when it fails at some entry the
\* image's content and undo history are as before the call; when it succeeds
\* with n annotations the undo count has grown by n, capped at undo_levels, and
\* the snapshot that n undos restore is the content before the batch.
C30_BatchAllOrNothing ==
  [][ \A image_id \in AllIds, annotations \in Annotations :
        (ret'.op = "batch_annotate" /\ BatchAnnotate(image_id, annotations))
          => IF ret'.err # "none"
             THEN /\ image_id \in Resident <=> image_id \in Resident'
                  /\ image_id \in Resident => image_store'[image_id] = image_store[image_id]
                  /\ HistoryOf(image_id)' = HistoryOf(image_id)
             ELSE LET n == Len(annotations.specs)
                      h == HistoryOf(image_id)'
                  IN  /\ Len(h) = Min2(UndoCount(image_history, image_id) + n, UNDO_LEVELS)
                      /\ (0 < n /\ n <= UNDO_LEVELS)
                           => h[Len(h) - n + 1] = image_store[image_id]
    ]_vars

====
